---- MODULE Spec2Model ----
(***************************************************************************)
(* ERC-2470 address miner: the coordinator (pkg/miner/miner.go, Miner),     *)
(* the search worker (pkg/worker/worker.go, Worker), the address           *)
(* derivation and the configuration (internal/crypto/address.go, which     *)
(* also holds package config).                                             *)
(*                                                                         *)
(* Strings are sequences of one-character strings, byte slices are         *)
(* sequences of 0..255.  Widths are the program's: a salt is 32 bytes, an  *)
(* address 20 bytes, a checksummed address "0x" and 40 hex characters.     *)
(***************************************************************************)
EXTENDS Integers, Sequences, FiniteSets, TLC

(***************************************************************************)
(* Bounds of the model.                                                    *)
(***************************************************************************)
\* rand.Read fills the salt buffer; the model lets its first byte range over
\* 0..MaxSaltByte and keeps the other 31 bytes zero.
MaxSaltByte == 2
\* cfg.Workers ranges over 1..MaxWorkers.
MaxWorkers == 2
\* No candidate is derived once MaxAttempts candidates have been derived.
MaxAttempts == 3
\* The reporter prints at most MaxTicks progress lines.
MaxTicks == 1
\* batchSize of Miner.worker (1000 in the source), scaled down.
batchSize == 2

\* ProcessBatch(n) is called with n in 0..MaxBatch.
MaxBatch == 3

\* A nil pointer.
NIL == [nil |-> TRUE]

(***************************************************************************)
(* Hex strings                                                             *)
(***************************************************************************)
HexLower ==
  <<"0", "1", "2", "3", "4", "5", "6", "7", "8", "9", "a", "b", "c", "d", "e", "f">>

HexUpper ==
  <<"0", "1", "2", "3", "4", "5", "6", "7", "8", "9", "A", "B", "C", "D", "E", "F">>

\* The ASCII code of the lowercase hex digit of nibble n.
AsciiLower(n) == IF n < 10 THEN 48 + n ELSE 87 + n

\* s[from+1 .. to] in Go's s[from:to] (0-based, half-open).
Slice(s, from, to) == SubSeq(s, from + 1, to)

\* hex.Encode / hex.EncodeToString: two lowercase hex characters per byte.
HexEncode(bytes) ==
  [k \in 1..(2 * Len(bytes)) |->
     LET b == bytes[(k + 1) \div 2]
     IN  IF k % 2 = 1 THEN HexLower[(b \div 16) + 1] ELSE HexLower[(b % 16) + 1]]

(***************************************************************************)
(* keccak-256.  The digest function itself is golang.org/x/crypto/sha3 and *)
(* is not code of the repository; the model uses a fixed deterministic     *)
(* 32-byte stand-in digest (a weighted sum of the input bytes, squared).   *)
(***************************************************************************)
RECURSIVE KeccakSum(_, _, _, _)
KeccakSum(b, k, lo, hi) ==
  IF lo > hi THEN 0
  ELSE IF lo = hi THEN (b[lo] + 1) * (((lo * 56 + k * 13) % 251) + 1)
  ELSE LET mid == (lo + hi) \div 2
       IN  KeccakSum(b, k, lo, mid) + KeccakSum(b, k, mid + 1, hi)

keccak256Bytes(b) ==
  [k \in 1..32 |->
     LET s == KeccakSum(b, k, 1, Len(b)) % 32749 IN (((s * s) \div 7) + s) % 256]

Keccak256(data) == keccak256Bytes(data)

(***************************************************************************)
(* internal/crypto: CREATE2 derivation and EIP-55 checksum                 *)
(***************************************************************************)
create2Prefix ==
  <<255, 206, 0, 66, 184, 104, 48, 0, 0, 212, 74, 89, 0, 77, 165, 74, 0, 95,
    253, 207, 159>>

\* n := (hash[i/2] >> uint(4*(1-i%2))) & 0xF, i counted from 0.
HashNibble(hash, i) ==
  IF i % 2 = 0 THEN hash[(i \div 2) + 1] \div 16 ELSE hash[(i \div 2) + 1] % 16

\* The two hex characters of each byte written low nibble first.
toChecksumAddressSwapped(addr20) ==
  LET nibbles == [k \in 1..40 |->
                    IF k % 2 = 1 THEN addr20[(k + 1) \div 2] % 16
                                 ELSE addr20[(k + 1) \div 2] \div 16]
      hash == keccak256Bytes([k \in 1..40 |-> AsciiLower(nibbles[k])])
  IN  <<"0", "x">> \o
      [k \in 1..40 |->
         IF nibbles[k] < 10 THEN HexLower[nibbles[k] + 1]
         ELSE IF HashNibble(hash, k - 1) >= 8 THEN HexUpper[nibbles[k] + 1]
         ELSE HexLower[nibbles[k] + 1]]

toChecksumAddress(addr20) ==
  LET nibbles == [k \in 1..40 |->
                    IF k % 2 = 1 THEN addr20[(k + 1) \div 2] \div 16
                                 ELSE addr20[(k + 1) \div 2] % 16]
      hash == keccak256Bytes([k \in 1..40 |-> AsciiLower(nibbles[k])])
  IN  <<"0", "x">> \o
      [k \in 1..40 |->
         IF nibbles[k] < 10 THEN HexLower[nibbles[k] + 1]
         ELSE IF HashNibble(hash, k - 1) >= 8 THEN HexUpper[nibbles[k] + 1]
         ELSE HexLower[nibbles[k] + 1]]

\* var saltArray [32]byte; copy(saltArray[:], saltBytes)
SaltArray(saltBytes) ==
  [k \in 1..32 |-> IF k <= Len(saltBytes) THEN saltBytes[k] ELSE 0]

CalculateCreate2Address(initCodeHash, saltBytes) ==
  LET hash == keccak256Bytes(create2Prefix \o SaltArray(saltBytes) \o initCodeHash)
  IN  toChecksumAddress(Slice(hash, 12, 32))

(***************************************************************************)
(* math/big: a parsed hexadecimal integer is its digit sequence without    *)
(* leading zeros (most significant first).                                 *)
(***************************************************************************)
\* The value of a hex character, either case (big.Int.SetString, base 16).
HexValue ==
  [c \in {HexLower[k] : k \in 1..16} \cup {HexUpper[k] : k \in 1..16} |->
     CHOOSE n \in 0..15 : HexLower[n + 1] = c \/ HexUpper[n + 1] = c]

NibbleOf(c) == HexValue[c]

\* hex.DecodeString: the bytes of a hex string of even length.
HexDecode(str) ==
  [k \in 1..(Len(str) \div 2) |-> 16 * HexValue[str[2 * k - 1]] + HexValue[str[2 * k]]]

SetString(str) ==
  LET d  == [k \in 1..Len(str) |-> NibbleOf(str[k])]
      nz == {k \in 1..Len(str) : d[k] # 0}
  IN  IF nz = {} THEN <<>>
      ELSE SubSeq(d, CHOOSE k \in nz : \A j \in nz : k <= j, Len(str))

\* a.Cmp(b) < 0
CmpLess(a, b) ==
  \/ Len(a) < Len(b)
  \/ /\ Len(a) = Len(b)
     /\ \E k \in 1..Len(a) : a[k] < b[k] /\ \A j \in 1..(k - 1) : a[j] = b[j]

(***************************************************************************)
(* Miner.isBetterOptimized                                                 *)
(***************************************************************************)
\* The comparison written newInt.Cmp(oldInt) <= 0.
isBetterNonStrict(newAddr, oldAddr) ==
  LET newClean == Slice(newAddr, 2, Len(newAddr))
      oldClean == Slice(oldAddr, 2, Len(oldAddr))
  IN  ~CmpLess(SetString(oldClean), SetString(newClean))

isBetterOptimized(newAddr, oldAddr) ==
  LET newClean == Slice(newAddr, 2, Len(newAddr))
      oldClean == Slice(oldAddr, 2, Len(oldAddr))
  IN  CmpLess(SetString(newClean), SetString(oldClean))

(***************************************************************************)
(* package config: Config.IsZeroPrefix                                     *)
(***************************************************************************)
\* if len(p) > 2 && p[:2] == "0x" { p = p[2:] }
Strip0x(p) ==
  IF Len(p) > 2 /\ Slice(p, 0, 2) = <<"0", "x">> THEN Slice(p, 2, Len(p)) ELSE p

\* The test made on the flag as given, a leading "0x" included.
IsZeroPrefixUnstripped(c) ==
  IF c.Prefix = <<>> THEN FALSE
  ELSE \A k \in 1..Len(c.Prefix) : c.Prefix[k] = "0"

IsZeroPrefix(c) ==
  IF c.Prefix = <<>> THEN FALSE
  ELSE LET prefix == Strip0x(c.Prefix)
       IN  \A k \in 1..Len(prefix) : prefix[k] = "0"

(***************************************************************************)
(* Worker.matchesOptimized                                                 *)
(***************************************************************************)
\* The match taken on the whole string, "0x" included.
matchesUnstripped(c, address) ==
  LET prefixClean == Strip0x(c.Prefix)
      suffixClean == Strip0x(c.Suffix)
  IN  IF c.Target # <<>> THEN address = c.Target
      ELSE IF c.Prefix # <<>>
        THEN Slice(address, 0, Len(prefixClean)) = prefixClean
      ELSE IF c.Suffix # <<>>
        THEN Slice(address, Len(address) - Len(suffixClean), Len(address)) = suffixClean
      ELSE FALSE

matchesOptimized(c, address) ==
  LET addr == Slice(address, 2, Len(address))
      targetClean == Strip0x(c.Target)
      prefixClean == Strip0x(c.Prefix)
      suffixClean == Strip0x(c.Suffix)
  IN  IF c.Target # <<>> THEN addr = targetClean
      ELSE IF c.Prefix # <<>> /\ Len(addr) >= Len(prefixClean)
        THEN Slice(addr, 0, Len(prefixClean)) = prefixClean
      ELSE IF c.Suffix # <<>> /\ Len(addr) >= Len(suffixClean)
        THEN Slice(addr, Len(addr) - Len(suffixClean), Len(addr)) = suffixClean
      ELSE FALSE

(***************************************************************************)
(* The run: NewMiner's inputs                                              *)
(***************************************************************************)
\* cfg.Bytecode "0x00": GetBytecode decodes it to the one byte 0.
Initcode == <<0>>

\* initcodeHash := crypto.Keccak256(initcode)
InitcodeHash == Keccak256(Initcode)

\* The salt buffers rand.Read can leave in w.saltBuffer.
SaltOf(b) == [k \in 1..32 |-> IF k = 1 THEN b ELSE 0]
SaltBuffers == {SaltOf(b) : b \in 0..MaxSaltByte}

\* CalculateCreate2Address(w.config.InitcodeHash, saltBytes), tabulated over
\* the salt buffers of the model.
AddressOf == [s \in SaltBuffers |-> CalculateCreate2Address(InitcodeHash, s)]

\* The pattern flags of the runs: --prefix 0 (best-tracking mode),
\* --prefix 0x04, --suffix 2, --target <address of the first salt>.
Patterns ==
  { [Target |-> <<>>, Prefix |-> <<"0">>, Suffix |-> <<>>],
    [Target |-> <<>>, Prefix |-> <<"0", "x", "0", "4">>, Suffix |-> <<>>],
    [Target |-> <<>>, Prefix |-> <<>>, Suffix |-> <<"2">>],
    [Target |-> AddressOf[SaltOf(0)], Prefix |-> <<>>, Suffix |-> <<>>] }

\* runtime.NumCPU() of the machine of the runs.
NumCPU == MaxWorkers

\* The --workers values of the runs.
InputWorkers == (-1)..MaxWorkers

\* cfg.Workers left as given.
WorkersAsGiven(n) == n

\* if cfg.Workers <= 0 { cfg.Workers = runtime.NumCPU() }
NormalWorkers(n) == IF n <= 0 THEN NumCPU ELSE n

\* The configurations NewMiner leaves in m.config.
Configs ==
  { [Workers |-> NormalWorkers(n), Target |-> p.Target, Prefix |-> p.Prefix,
     Suffix |-> p.Suffix, Verbose |-> v] :
      n \in InputWorkers, p \in Patterns, v \in BOOLEAN }

WorkerIds == 1..MaxWorkers

\* No function has been called outside a run.
NoCall == [fn |-> "none"]

(***************************************************************************)
(* State                                                                   *)
(***************************************************************************)
VARIABLES
  cfg,         \* m.config / m.workerConfig
  attempts,    \* m.attempts
  bestResult,  \* m.bestResult: NIL or [Salt, Address, Attempts, Duration]
  mu,          \* m.mu: 0 (free) or the worker holding the write lock
  done,        \* m.done is closed
  once,        \* m.once has run
  closes,      \* number of close(m.done) executed
  wg,          \* m.wg counter
  minePc,      \* Mine: "idle", "spawn", "wait", "finish", "returned"
  spawned,     \* Mine's loop variable i
  mineResult,  \* the value Mine returned
  logTicker,   \* the reporter's ticker: "none", "running", "stopped"
  tickC,       \* a tick is buffered in ticker.C
  logDone,     \* logDone is closed
  loggerPc,    \* periodicLogger: "none", "running", "exited"
  emitted,     \* number of progress lines printed so far
  pc,          \* per worker: position in Miner.worker
  idx,         \* per worker: the batch loop's i
  result,      \* per worker: the WorkerResult of the current attempt
  stopCalled,  \* Stop() has been called (it may be called again)
  derived,     \* history: number of candidates derived so far
  after,       \* history: per worker, increments made after m.done was closed
  writes,      \* history: the records installed in m.bestResult, in order
  call,        \* the last call of a function made outside a run, with its
               \* arguments and results
  evaluated    \* history: the addresses of the candidates derived so far

vars ==
  <<cfg, attempts, bestResult, mu, done, once, closes, wg, minePc, spawned,
    mineResult, logTicker, tickC, logDone, loggerPc, emitted, pc, idx, result,
    stopCalled, derived, after, writes, call, evaluated>>

minerVars == <<minePc, spawned, mineResult>>
logVars == <<logTicker, tickC, logDone, loggerPc, emitted>>
cancelVars == <<done, once, closes>>

Init ==
  /\ cfg \in Configs
  /\ attempts = 0
  /\ bestResult = NIL
  /\ mu = 0
  /\ done = FALSE
  /\ once = FALSE
  /\ closes = 0
  /\ wg = 0
  /\ minePc = "idle"
  /\ spawned = 0
  /\ mineResult = NIL
  /\ logTicker = "none"
  /\ tickC = FALSE
  /\ logDone = FALSE
  /\ loggerPc = "none"
  /\ emitted = 0
  /\ pc = [w \in WorkerIds |-> "unborn"]
  /\ idx = [w \in WorkerIds |-> 0]
  /\ result = [w \in WorkerIds |-> NIL]
  /\ stopCalled = FALSE
  /\ derived = 0
  /\ after = [w \in WorkerIds |-> 0]
  /\ writes = <<>>
  /\ call = NoCall
  /\ evaluated = {}

(***************************************************************************)
(* Cancellation: m.once.Do(func() { close(m.done) })                       *)
(***************************************************************************)
\* The function handed to m.once.Do never run.
OnceDoSkipped == UNCHANGED <<once, done, closes>>

\* close(m.done) without the sync.Once around it.
OnceDoUnguarded == once' = TRUE /\ done' = TRUE /\ closes' = closes + 1

OnceDo ==
  IF once
    THEN UNCHANGED cancelVars
    ELSE once' = TRUE /\ done' = TRUE /\ closes' = closes + 1

(***************************************************************************)
(* Miner.Stop                                                              *)
(***************************************************************************)
Stop ==
  /\ OnceDo
  /\ stopCalled' = TRUE
  /\ UNCHANGED <<call, evaluated, cfg, attempts, bestResult, mu, wg, minerVars, logVars, pc,
                 idx, result, derived, after, writes>>

(***************************************************************************)
(* Miner.worker with Worker.GenerateAddress                                *)
(***************************************************************************)
\* The accept check without the comparator.
AcceptsAlways(r) == TRUE

\* m.bestResult == nil || m.isBetterOptimized(result.Address, m.bestResult.Address)
Accepts(r) ==
  bestResult = NIL \/ isBetterOptimized(r.Address, bestResult.Address)

\* The record updated field by field, the salt left behind.
NewResultKeepSalt(r) ==
  [Salt |-> IF bestResult = NIL THEN r.Salt ELSE bestResult.Salt,
   Address |-> r.Address, Attempts |-> r.Attempts, Duration |-> 0]

\* The record built without the attempt count of its candidate.
NewResultNoCount(r) ==
  [Salt |-> r.Salt, Address |-> r.Address, Attempts |-> 0, Duration |-> 0]

\* &types.Result{Salt: result.Salt, Address: result.Address, Attempts: result.Attempts}
NewResult(r) ==
  [Salt |-> r.Salt, Address |-> r.Address, Attempts |-> r.Attempts, Duration |-> 0]

WriteEvent(step, w, r) ==
  [step |-> step, worker |-> w, cancelled |-> done, Salt |-> r.Salt,
   Address |-> r.Address]

\* A poll of a channel that is never closed.
CancelledNever == FALSE

\* case <-m.done: of the two selects of Miner.worker
Cancelled == done

\* defer m.wg.Done(); return
WorkerReturn(w) ==
  /\ pc' = [pc EXCEPT ![w] = "stopped"]
  /\ wg' = wg - 1

\* The end of one pass of "for i := 0; i < batchSize; i++": i++, then the loop
\* test; result goes out of scope.
NextIteration(w) ==
  /\ idx' = [idx EXCEPT ![w] = idx[w] + 1]
  /\ pc' = [pc EXCEPT ![w] = IF idx[w] + 1 < batchSize THEN "batch" ELSE "select"]
  /\ result' = [result EXCEPT ![w] = NIL]

\* The outer select entered again by a worker that has returned.
WorkerSelectResumes(w) ==
  /\ pc[w] \in {"select", "stopped"}
  /\ IF Cancelled /\ pc[w] = "select"
       THEN WorkerReturn(w) /\ UNCHANGED idx
       ELSE /\ pc' = [pc EXCEPT ![w] = "batch"]
            /\ idx' = [idx EXCEPT ![w] = 0]
            /\ UNCHANGED wg
  /\ UNCHANGED <<call, evaluated, cfg, attempts, bestResult, mu, cancelVars, minerVars, logVars,
                 result, stopCalled, derived, after, writes>>

\* The outer select: case <-m.done: return; default: start a batch with i := 0.
WorkerSelect(w) ==
  /\ pc[w] = "select"
  /\ IF Cancelled
       THEN WorkerReturn(w) /\ UNCHANGED idx
       ELSE /\ pc' = [pc EXCEPT ![w] = "batch"]
            /\ idx' = [idx EXCEPT ![w] = 0]
            /\ UNCHANGED wg
  /\ UNCHANGED <<call, evaluated, cfg, attempts, bestResult, mu, cancelVars, minerVars, logVars,
                 result, stopCalled, derived, after, writes>>

\* The inner select, then GenerateAddress up to the derivation of the address:
\* fastRandomSaltBytes (rand.Read may fail: GenerateAddress returns nil and the
\* loop continues), fastHexEncode, CalculateCreate2Address.
WorkerGenerate(w) ==
  /\ pc[w] = "batch"
  /\ \/ /\ Cancelled
        /\ WorkerReturn(w)
        /\ UNCHANGED <<idx, result, derived, evaluated>>
     \/ /\ ~Cancelled
        /\ NextIteration(w)
        /\ UNCHANGED <<wg, derived, evaluated>>
     \/ /\ ~Cancelled
        /\ derived < MaxAttempts
        /\ \E saltBytes \in SaltBuffers :
             /\ result' = [result EXCEPT ![w] =
                             [Salt |-> HexEncode(saltBytes),
                              Address |-> AddressOf[saltBytes],
                              Attempts |-> 0, IsMatch |-> FALSE]]
             /\ evaluated' = evaluated \cup {AddressOf[saltBytes]}
        /\ derived' = derived + 1
        /\ pc' = [pc EXCEPT ![w] = "add"]
        /\ UNCHANGED <<wg, idx>>
  /\ UNCHANGED <<call, cfg, attempts, bestResult, mu, cancelVars, minerVars, logVars,
                 stopCalled, after, writes>>

\* The counter raised twice per attempt.
AddInt64Twice(n) == attempts' = attempts + n + n

\* atomic.AddInt64(w.attempts, 1)
AddInt64(n) == attempts' = attempts + n

\* Until the counter is loaded, the candidate carries the value the worker's
\* own increment produced (history; the code discards it).
WorkerAdd(w) ==
  /\ pc[w] = "add"
  /\ AddInt64(1)
  /\ result' = [result EXCEPT ![w] =
                  [Salt |-> @.Salt, Address |-> @.Address, Attempts |-> @.Attempts,
                   IsMatch |-> @.IsMatch, Own |-> attempts']]
  /\ after' = [after EXCEPT ![w] = IF done THEN after[w] + 1 ELSE after[w]]
  /\ pc' = [pc EXCEPT ![w] = "load"]
  /\ UNCHANGED <<call, evaluated, cfg, bestResult, mu, cancelVars, wg, minerVars, logVars, idx,
                 stopCalled, derived, writes>>

\* isMatch := w.matchesOptimized(address); Attempts: atomic.LoadInt64(w.attempts);
\* back in Miner.worker, the branch on m.config.IsZeroPrefix() and result.IsMatch.
WorkerLoad(w) ==
  /\ pc[w] = "load"
  /\ LET r == [Salt |-> result[w].Salt, Address |-> result[w].Address,
               Attempts |-> attempts,
               IsMatch |-> matchesOptimized(cfg, result[w].Address)]
     IN  IF IsZeroPrefix(cfg)
           THEN /\ result' = [result EXCEPT ![w] = r]
                /\ pc' = [pc EXCEPT ![w] = "trackLock"]
                /\ UNCHANGED idx
         ELSE IF r.IsMatch
           THEN /\ result' = [result EXCEPT ![w] = r]
                /\ pc' = [pc EXCEPT ![w] = "matchLock"]
                /\ UNCHANGED idx
         ELSE NextIteration(w)
  /\ UNCHANGED <<call, evaluated, cfg, attempts, bestResult, mu, cancelVars, wg, minerVars,
                 logVars, stopCalled, derived, after, writes>>

\* m.mu.Lock() of the tracking step and of the match step.
WorkerLock(w) ==
  /\ pc[w] \in {"trackLock", "matchLock"}
  /\ mu = 0
  /\ mu' = w
  /\ pc' = [pc EXCEPT ![w] = IF pc[w] = "trackLock" THEN "track" ELSE "match"]
  /\ UNCHANGED <<call, evaluated, cfg, attempts, bestResult, cancelVars, wg, minerVars, logVars,
                 idx, result, stopCalled, derived, after, writes>>

\* The tracking step under the lock (zero prefix only), m.mu.Unlock(), then
\* the branch on result.IsMatch.
WorkerTrack(w) ==
  /\ pc[w] = "track"
  /\ mu = w
  /\ IF Accepts(result[w])
       THEN /\ bestResult' = NewResult(result[w])
            /\ writes' = Append(writes, WriteEvent("track", w, result[w]))
       ELSE UNCHANGED <<bestResult, writes>>
  /\ mu' = 0
  /\ IF result[w].IsMatch
       THEN pc' = [pc EXCEPT ![w] = "matchLock"] /\ UNCHANGED <<idx, result>>
       ELSE NextIteration(w)
  /\ UNCHANGED <<call, evaluated, cfg, attempts, cancelVars, wg, minerVars, logVars, stopCalled,
                 derived, after>>

\* The match step going on to the next attempt when its candidate is not
\* accepted.
WorkerMatchRetry(w) ==
  /\ pc[w] = "match"
  /\ mu = w
  /\ IF Accepts(result[w])
       THEN /\ bestResult' = NewResult(result[w])
            /\ writes' = Append(writes, WriteEvent("match", w, result[w]))
            /\ OnceDo
            /\ WorkerReturn(w)
            /\ UNCHANGED <<idx, result>>
       ELSE /\ NextIteration(w)
            /\ UNCHANGED <<bestResult, writes, cancelVars, wg>>
  /\ mu' = 0
  /\ UNCHANGED <<call, evaluated, cfg, attempts, minerVars, logVars, stopCalled, derived,
                 after>>

\* The match step under the lock, m.mu.Unlock(), return.
WorkerMatch(w) ==
  /\ pc[w] = "match"
  /\ mu = w
  /\ IF Accepts(result[w])
       THEN /\ bestResult' = NewResult(result[w])
            /\ writes' = Append(writes, WriteEvent("match", w, result[w]))
            /\ OnceDo
       ELSE UNCHANGED <<bestResult, writes, cancelVars>>
  /\ mu' = 0
  /\ WorkerReturn(w)
  /\ UNCHANGED <<call, evaluated, cfg, attempts, minerVars, logVars, idx, result, stopCalled, derived,
                 after>>

WorkerStep(w) ==
  \/ WorkerSelect(w)
  \/ WorkerGenerate(w)
  \/ WorkerAdd(w)
  \/ WorkerLoad(w)
  \/ WorkerLock(w)
  \/ WorkerTrack(w)
  \/ WorkerMatch(w)

(***************************************************************************)
(* Miner.periodicLogger and its ticker                                     *)
(***************************************************************************)
\* The runtime delivers a tick into ticker.C (buffer of one; a tick is dropped
\* when the buffer is full).
TickerFire ==
  /\ logTicker = "running"
  /\ ~tickC
  /\ emitted < MaxTicks
  /\ tickC' = TRUE
  /\ UNCHANGED <<call, evaluated, cfg, attempts, bestResult, mu, cancelVars, wg, minerVars,
                 logTicker, logDone, loggerPc, emitted, pc, idx, result, stopCalled,
                 derived, after, writes>>

\* The counter read with atomic.SwapInt64(&m.attempts, 0) instead of a load.
LoggerTickSwap ==
  /\ loggerPc = "running"
  /\ tickC
  /\ mu = 0
  /\ tickC' = FALSE
  /\ emitted' = emitted + 1
  /\ attempts' = 0
  /\ UNCHANGED <<call, evaluated, cfg, bestResult, mu, cancelVars, wg, minerVars,
                 logTicker, logDone, loggerPc, pc, idx, result, stopCalled, derived,
                 after, writes>>

\* case <-ticker.C: read the counter, read m.bestResult under RLock, print one
\* progress line (its text is not part of the state).
LoggerTick ==
  /\ loggerPc = "running"
  /\ tickC
  /\ mu = 0
  /\ tickC' = FALSE
  /\ emitted' = emitted + 1
  /\ UNCHANGED <<call, evaluated, cfg, attempts, bestResult, mu, cancelVars, wg, minerVars,
                 logTicker, logDone, loggerPc, pc, idx, result, stopCalled, derived,
                 after, writes>>

\* case <-done: return
LoggerExit ==
  /\ loggerPc = "running"
  /\ logDone
  /\ loggerPc' = "exited"
  /\ UNCHANGED <<call, evaluated, cfg, attempts, bestResult, mu, cancelVars, wg, minerVars,
                 logTicker, tickC, logDone, emitted, pc, idx, result, stopCalled,
                 derived, after, writes>>

(***************************************************************************)
(* Miner.Mine                                                              *)
(***************************************************************************)
\* start := time.Now()
MineStart ==
  /\ minePc = "idle"
  /\ minePc' = "spawn"
  /\ UNCHANGED <<call, evaluated, cfg, attempts, bestResult, mu, cancelVars, wg, spawned,
                 mineResult, logVars, pc, idx, result, stopCalled, derived, after,
                 writes>>

\* m.wg.Add(1); go m.worker(i)
MineSpawn ==
  /\ minePc = "spawn"
  /\ spawned < cfg.Workers
  /\ wg' = wg + 1
  /\ pc' = [pc EXCEPT ![spawned + 1] = "select"]
  /\ spawned' = spawned + 1
  /\ UNCHANGED <<call, evaluated, cfg, attempts, bestResult, mu, cancelVars, minePc, mineResult,
                 logVars, idx, result, stopCalled, derived, after, writes>>

\* if m.config.Verbose { logTicker = time.NewTicker(...); go m.periodicLogger(...) }
MineStartLogger ==
  /\ minePc = "spawn"
  /\ spawned >= cfg.Workers
  /\ IF cfg.Verbose
       THEN logTicker' = "running" /\ loggerPc' = "running"
       ELSE UNCHANGED <<logTicker, loggerPc>>
  /\ minePc' = "wait"
  /\ UNCHANGED <<call, evaluated, cfg, attempts, bestResult, mu, cancelVars, wg, spawned,
                 mineResult, tickC, logDone, emitted, pc, idx, result, stopCalled,
                 derived, after, writes>>

\* Mine() going on without waiting for the workers.
MineWaitNoWait ==
  /\ minePc = "wait"
  /\ minePc' = "finish"
  /\ UNCHANGED <<call, evaluated, cfg, attempts, bestResult, mu, cancelVars, wg, spawned,
                 mineResult, logVars, pc, idx, result, stopCalled, derived, after,
                 writes>>

\* m.wg.Wait()
MineWait ==
  /\ minePc = "wait"
  /\ wg = 0
  /\ minePc' = "finish"
  /\ UNCHANGED <<call, evaluated, cfg, attempts, bestResult, mu, cancelVars, wg, spawned,
                 mineResult, logVars, pc, idx, result, stopCalled, derived, after,
                 writes>>

\* A cancelled run reporting no result.
MineReturnsNilOnStop(best) == IF stopCalled THEN NIL ELSE best

\* return m.bestResult
MineReturns(best) == best

\* logTicker.Stop(); close(logDone); m.bestResult.Duration = time.Since(start);
\* return m.bestResult
MineFinish ==
  /\ minePc = "finish"
  /\ IF logTicker # "none"
       THEN logTicker' = "stopped" /\ logDone' = TRUE
       ELSE UNCHANGED <<logTicker, logDone>>
  /\ bestResult' = IF bestResult # NIL THEN [bestResult EXCEPT !.Duration = 1]
                   ELSE bestResult
  /\ mineResult' = MineReturns(bestResult')
  /\ minePc' = "returned"
  /\ UNCHANGED <<call, evaluated, cfg, attempts, mu, cancelVars, wg, spawned, tickC, loggerPc,
                 emitted, pc, idx, result, stopCalled, derived, after, writes>>

MineStep == MineStart \/ MineSpawn \/ MineStartLogger \/ MineWait \/ MineFinish

LoggerStep == TickerFire \/ LoggerTick \/ LoggerExit

Next ==
  \/ MineStart
  \/ MineSpawn
  \/ MineStartLogger
  \/ MineWait
  \/ MineFinish
  \/ Stop
  \/ TickerFire
  \/ LoggerTick
  \/ LoggerExit
  \/ \E w \in WorkerIds : WorkerSelect(w)
  \/ \E w \in WorkerIds : WorkerGenerate(w)
  \/ \E w \in WorkerIds : WorkerAdd(w)
  \/ \E w \in WorkerIds : WorkerLoad(w)
  \/ \E w \in WorkerIds : WorkerLock(w)
  \/ \E w \in WorkerIds : WorkerTrack(w)
  \/ \E w \in WorkerIds : WorkerMatch(w)

Spec == Init /\ [][Next]_vars

\* The Go scheduler runs every runnable goroutine: each worker and Mine keep
\* taking steps while they can.  The fair runs start from the configurations
\* with one worker, and with MaxWorkers workers for the suffix pattern without
\* the reporter.
FairInit ==
  /\ Init
  /\ cfg.Workers > 1 => (cfg.Workers = MaxWorkers /\ ~cfg.Verbose /\ cfg.Suffix # <<>>)

FairSpec ==
  /\ FairInit
  /\ [][Next]_vars
  /\ \A w \in WorkerIds : WF_vars(WorkerStep(w))
  /\ WF_vars(MineStep)

(***************************************************************************)
(* Calls outside a run: the comparator, the matcher and the worker         *)
(* constructor applied to sample arguments                                 *)
(***************************************************************************)
\* strings.ToLower / strings.ToUpper on a hex string ("x" is left alone).
ToLower(str) ==
  [k \in 1..Len(str) |->
     IF str[k] \in DOMAIN HexValue THEN HexLower[HexValue[str[k]] + 1] ELSE str[k]]

ToUpper(str) ==
  [k \in 1..Len(str) |->
     IF str[k] \in DOMAIN HexValue THEN HexUpper[HexValue[str[k]] + 1] ELSE str[k]]

\* The address of TestWorkerMatches: 12 34 56 78 90 ab cd ef, repeated.
TestAddr20 ==
  <<18, 52, 86, 120, 144, 171, 205, 239, 18, 52, 86, 120, 144, 171, 205, 239,
    18, 52, 86, 120>>

\* 20-byte addresses: all zero, ...01, ...02 (TestMinerIsBetter), 01 00.., 0a
\* 00.., ab ab.., ff ff.., and the address of TestWorkerMatches.
SampleBytes ==
  { [k \in 1..20 |-> 0],
    [k \in 1..20 |-> IF k = 20 THEN 1 ELSE 0],
    [k \in 1..20 |-> IF k = 20 THEN 2 ELSE 0],
    [k \in 1..20 |-> IF k = 1 THEN 1 ELSE 0],
    [k \in 1..20 |-> IF k = 1 THEN 10 ELSE 0],
    [k \in 1..20 |-> 171],
    [k \in 1..20 |-> 255],
    TestAddr20 }

\* Their displayed forms, EIP-55 and all lowercase, and the addresses of the runs.
SampleAddresses ==
  {toChecksumAddress(b) : b \in SampleBytes}
    \cup {ToLower(toChecksumAddress(b)) : b \in SampleBytes}
    \cup {AddressOf[s] : s \in SaltBuffers}

\* Pattern flags, one kind set in each.
SamplePrefixes ==
  { <<"1", "2">>, <<"1", "2", "3", "4">>, <<"0", "x", "1", "2">>, <<"a", "b">>,
    <<"A", "B">>, <<"0", "0">>, <<"f", "f">>, <<"9", "9", "9", "9">> }

SampleSuffixes ==
  { <<"7", "8">>, <<"5", "6", "7", "8">>, <<"a", "b">>, <<"A", "B">>, <<"0", "1">> }

SampleTargets ==
  { Slice(ToLower(toChecksumAddress(TestAddr20)), 2, 42),
    toChecksumAddress(TestAddr20),
    toChecksumAddress([k \in 1..20 |-> 0]) }

SamplePatterns ==
  {[Target |-> <<>>, Prefix |-> p, Suffix |-> <<>>] : p \in SamplePrefixes}
    \cup {[Target |-> <<>>, Prefix |-> <<>>, Suffix |-> x] : x \in SampleSuffixes}
    \cup {[Target |-> t, Prefix |-> <<>>, Suffix |-> <<>>] : t \in SampleTargets}

\* The pattern flags of a configuration with their letters in one case.
LowerPattern(c) ==
  [Target |-> ToLower(c.Target), Prefix |-> ToLower(c.Prefix), Suffix |-> ToLower(c.Suffix)]

UpperPattern(c) ==
  [Target |-> ToUpper(c.Target), Prefix |-> ToUpper(c.Prefix), Suffix |-> ToUpper(c.Suffix)]

\* What rand.Read can leave in NewWorker's seed buffer.
SampleSeeds ==
  { [k \in 1..8 |-> 0], [k \in 1..8 |-> IF k = 1 THEN 7 ELSE 0], [k \in 1..8 |-> 255] }

\* NewWorker: the PRNG state (8 bytes, least significant first) is the seed
\* when rand.Read succeeded, and 1 when it failed or the seed is zero; a worker
\* is returned in every case.
NewWorker(readOk, seed) ==
  LET zero  == [k \in 1..8 |-> 0]
      state == IF readOk THEN seed ELSE zero
  IN  [prngState |-> IF state = zero THEN [k \in 1..8 |-> IF k = 1 THEN 1 ELSE 0]
                     ELSE state]

runVars ==
  <<cfg, attempts, bestResult, mu, done, once, closes, wg, minePc, spawned,
    mineResult, logTicker, tickC, logDone, loggerPc, emitted, pc, idx, result,
    stopCalled, derived, after, writes, evaluated>>

\* m.isBetterOptimized(newAddr, oldAddr), the same call with the arguments
\* swapped and with newAddr twice, and the accept check for newAddr.
CallIsBetter ==
  /\ call = NoCall
  /\ \E x \in SampleAddresses, y \in SampleAddresses :
       call' = [fn |-> "isBetterOptimized", newAddr |-> x, oldAddr |-> y,
                ret |-> isBetterOptimized(x, y),
                swapped |-> isBetterOptimized(y, x),
                self |-> isBetterOptimized(x, x),
                accepts |-> Accepts([Address |-> x])]
  /\ UNCHANGED runVars

\* w.matchesOptimized(address), and the same call with the pattern in lower
\* case, in upper case, and with the address displayed in lower case.
CallMatches ==
  /\ call = NoCall
  /\ \E c \in SamplePatterns, a \in SampleAddresses :
       call' = [fn |-> "matchesOptimized", config |-> c, address |-> a,
                ret |-> matchesOptimized(c, a),
                retLower |-> matchesOptimized(LowerPattern(c), a),
                retUpper |-> matchesOptimized(UpperPattern(c), a),
                retPlain |-> matchesOptimized(c, ToLower(a))]
  /\ UNCHANGED runVars

\* Pattern flags with several kinds set at once, digits only: a target with a
\* prefix and a suffix, a target with a prefix, and prefixes with suffixes.
SeveralPatterns ==
  LET zero == toChecksumAddress([k \in 1..20 |-> 0])
  IN  { [Target |-> zero, Prefix |-> <<"1", "2">>, Suffix |-> <<"7", "8">>],
        [Target |-> zero, Prefix |-> <<"0", "0">>, Suffix |-> <<>>],
        [Target |-> <<>>, Prefix |-> <<"1", "2">>, Suffix |-> <<"7", "8">>],
        [Target |-> <<>>, Prefix |-> <<"1", "2">>, Suffix |-> <<"0", "1">>],
        [Target |-> <<>>, Prefix |-> <<"9", "9", "9", "9">>, Suffix |-> <<"7", "8">>],
        [Target |-> <<>>, Prefix |-> <<"0", "0">>, Suffix |-> <<"0", "1">>] }

\* w.matchesOptimized(address) with several pattern flags set.
CallMatchesSeveral ==
  /\ call = NoCall
  /\ \E c \in SeveralPatterns, a \in SampleAddresses :
       call' = [fn |-> "matchesSeveral", config |-> c, address |-> a,
                ret |-> matchesOptimized(c, a)]
  /\ UNCHANGED runVars

\* worker.NewWorker(config, attempts) with rand.Read succeeding or failing.
CallNewWorker ==
  /\ call = NoCall
  /\ \E readOk \in BOOLEAN, seed \in SampleSeeds :
       call' = [fn |-> "NewWorker", readOk |-> readOk, seed |-> seed,
                ret |-> NewWorker(readOk, seed)]
  /\ UNCHANGED runVars

(***************************************************************************)
(* Setup: runMiner up to NewMiner, on the raw command-line configuration   *)
(***************************************************************************)
\* hex.DecodeString: an error on an odd length or on a character that is not
\* a hex digit.
DecodeString(str) ==
  IF Len(str) % 2 = 0 /\ \A k \in 1..Len(str) : str[k] \in DOMAIN HexValue
    THEN [err |-> FALSE, bytes |-> HexDecode(str)]
    ELSE [err |-> TRUE, bytes |-> <<>>]

\* strings.TrimSpace
TrimSpace(str) ==
  LET keep == {k \in 1..Len(str) : str[k] \notin {" ", "\n", "\t", "\r"}}
  IN  IF keep = {} THEN <<>>
      ELSE SubSeq(str, CHOOSE k \in keep : \A j \in keep : k <= j,
                       CHOOSE k \in keep : \A j \in keep : k >= j)

\* The files os.ReadFile can read; any other name is an error.
Files ==
  [name \in {"code.hex", "odd.hex"} |->
     IF name = "code.hex" THEN <<"0", "x", "0", "0", "\n">> ELSE <<"0", "x", "0", "\n">>]

readBytecodeFromFile(filename) ==
  IF filename \notin DOMAIN Files THEN [err |-> TRUE, bytes |-> <<>>]
  ELSE LET code   == Strip0x(TrimSpace(Files[filename]))
           padded == IF Len(code) % 2 # 0 THEN code \o <<"0">> ELSE code
       IN  DecodeString(padded)

GetBytecode(c) ==
  IF c.BytecodeFile # "" THEN readBytecodeFromFile(c.BytecodeFile)
  ELSE IF c.Bytecode # <<>> THEN DecodeString(Strip0x(c.Bytecode))
  ELSE [err |-> TRUE, bytes |-> <<>>]

Validate(c) ==
  IF c.Target = <<>> /\ c.Prefix = <<>> /\ c.Suffix = <<>> THEN "ErrNoTargetSpecified"
  ELSE IF c.Bytecode = <<>> /\ c.BytecodeFile = "" THEN "ErrNoBytecodeSpecified"
  ELSE "nil"

\* A run of one worker, no pattern, --bytecode 0x00.
BaseConfig ==
  [Workers |-> 1, Target |-> <<>>, Prefix |-> <<>>, Suffix |-> <<>>, Verbose |-> FALSE,
   Bytecode |-> <<"0", "x", "0", "0">>, BytecodeFile |-> ""]

\* The command lines of the setup runs: one pattern, two patterns, none, a
\* pattern that is not hex, a target of the wrong length, and init code that
\* is missing, not hex, in an unreadable file, in a readable file.  Every init
\* code that decodes is the one byte of Initcode.
RawConfigs ==
  { [BaseConfig EXCEPT !.Prefix = <<"0">>, !.Verbose = TRUE],
    [BaseConfig EXCEPT !.Suffix = <<"2">>],
    [BaseConfig EXCEPT !.Target = AddressOf[SaltOf(0)], !.Prefix = <<"0">>],
    [BaseConfig EXCEPT !.Prefix = <<"0", "x", "0", "4">>, !.Suffix = <<"2">>],
    BaseConfig,
    [BaseConfig EXCEPT !.Prefix = <<"0", "z">>],
    [BaseConfig EXCEPT !.Target = <<"0", "x", "1", "2">>],
    [BaseConfig EXCEPT !.Suffix = <<"2">>, !.Bytecode = <<>>],
    [BaseConfig EXCEPT !.Suffix = <<"2">>, !.Bytecode = <<"0", "x", "z", "z">>],
    [BaseConfig EXCEPT !.Suffix = <<"2">>, !.Bytecode = <<>>, !.BytecodeFile = "missing.hex"],
    [BaseConfig EXCEPT !.Suffix = <<"2">>, !.Bytecode = <<>>, !.BytecodeFile = "code.hex"],
    [BaseConfig EXCEPT !.Suffix = <<"2">>, !.BytecodeFile = "odd.hex"] }

\* runMiner: cfg.Validate() (an error exits), then NewMiner: the worker count,
\* GetBytecode (an error panics), the hash of the init code.
Setup ==
  /\ minePc = "setup"
  /\ IF Validate(cfg) # "nil"
       THEN minePc' = "exit" /\ UNCHANGED cfg
       ELSE /\ cfg' = [cfg EXCEPT !.Workers = NormalWorkers(cfg.Workers)]
            /\ minePc' = IF GetBytecode(cfg).err THEN "panic" ELSE "idle"
  /\ UNCHANGED <<call, evaluated, attempts, bestResult, mu, cancelVars, wg, spawned,
                 mineResult, logVars, pc, idx, result, stopCalled, derived, after,
                 writes>>

\* The state before runMiner has validated anything.
SetupInit ==
  /\ cfg \in RawConfigs
  /\ minePc = "setup"
  /\ attempts = 0 /\ bestResult = NIL /\ mu = 0
  /\ done = FALSE /\ once = FALSE /\ closes = 0 /\ wg = 0
  /\ spawned = 0 /\ mineResult = NIL
  /\ logTicker = "none" /\ tickC = FALSE /\ logDone = FALSE
  /\ loggerPc = "none" /\ emitted = 0
  /\ pc = [w \in WorkerIds |-> "unborn"]
  /\ idx = [w \in WorkerIds |-> 0]
  /\ result = [w \in WorkerIds |-> NIL]
  /\ stopCalled = FALSE /\ derived = 0
  /\ after = [w \in WorkerIds |-> 0]
  /\ writes = <<>>
  /\ call = NoCall
  /\ evaluated = {}

SetupNext == Setup \/ Next

SetupSpec == SetupInit /\ [][SetupNext]_vars

(***************************************************************************)
(* Calls outside a run: the checksum encoding and its decoding, and the    *)
(* derivation through a worker's reused hasher and buffers                 *)
(***************************************************************************)
\* MustAddressBytes: strings.TrimSpace, an optional "0x" or "0X" dropped, then
\* exactly 40 hex characters decoded.
MustAddressBytes(addr) ==
  LET t == TrimSpace(addr)
      h == IF Len(t) >= 2 /\ Slice(t, 0, 2) \in {<<"0", "x">>, <<"0", "X">>}
             THEN Slice(t, 2, Len(t)) ELSE t
  IN  IF Len(h) # 40 THEN [err |-> TRUE, bytes |-> <<>>] ELSE DecodeString(h)

\* The 20-byte addresses given to the checksum encoding: the sample addresses
\* and the addresses the runs derive.
ChecksumInputs ==
  SampleBytes \cup {HexDecode(Slice(AddressOf[s], 2, 42)) : s \in SaltBuffers}

\* toChecksumAddress(addr20), and MustAddressBytes on the result as displayed
\* and in lower case.
CallChecksum ==
  /\ call = NoCall
  /\ \E b \in ChecksumInputs :
       call' = [fn |-> "toChecksumAddress", addr20 |-> b,
                ret |-> toChecksumAddress(b),
                decoded |-> MustAddressBytes(ToLower(toChecksumAddress(b))),
                direct |-> MustAddressBytes(toChecksumAddress(b))]
  /\ UNCHANGED runVars

\* copy(dst, src): the first min(len(dst), len(src)) elements of dst replaced.
Copy(dst, src) ==
  [k \in 1..Len(dst) |-> IF k <= Len(src) THEN src[k] ELSE dst[k]]

\* The hasher written to without hasher.Reset() first.
Create2AddressIntoNoReset(hasher, inputBuf, hashBuf, addrBuf) ==
  LET written == hasher \o inputBuf
      sum     == Copy(hashBuf, keccak256Bytes(written))
  IN  [hasher |-> written, hashBuf |-> sum, addrBuf |-> Copy(addrBuf, Slice(sum, 12, 32))]

\* Create2AddressInto: the hasher is the bytes written since its last Reset;
\* hasher.Sum(hashBuf[:0]) leaves the digest in hashBuf.
Create2AddressInto(hasher, inputBuf, hashBuf, addrBuf) ==
  LET written == inputBuf
      sum     == Copy(hashBuf, keccak256Bytes(written))
  IN  [hasher |-> written, hashBuf |-> sum, addrBuf |-> Copy(addrBuf, Slice(sum, 12, 32))]

\* A worker of the buffered kind as NewWorker leaves it: zeroed buffers and a
\* hasher nothing was written to.
ZeroWorker ==
  [hasher |-> <<>>, inputBuf |-> [k \in 1..85 |-> 0], hashBuf |-> [k \in 1..32 |-> 0],
   addrBuf |-> [k \in 1..20 |-> 0]]

\* The salt copied one byte too far into the input buffer.
BuildInputShifted(inputBuf, saltBuf) ==
  LET in1 == Copy(Slice(inputBuf, 0, 22), create2Prefix)
      in2 == Copy(Slice(inputBuf, 22, 54), saltBuf)
      in3 == Copy(Slice(inputBuf, 54, 85), InitcodeHash)
  IN  in1 \o in2 \o in3

\* The three copies of GenerateAddress into the worker's 85-byte input
\* buffer: the CREATE2 prefix, the salt, the init-code hash.
BuildInput(inputBuf, saltBuf) ==
  LET in1 == Copy(Slice(inputBuf, 0, 21), create2Prefix)
      in2 == Copy(Slice(inputBuf, 21, 53), saltBuf)
      in3 == Copy(Slice(inputBuf, 53, 85), InitcodeHash)
  IN  in1 \o in2 \o in3

\* GenerateAddress of the buffered worker up to the derivation, for the salt
\* in w.saltBuf: the three copies into w.inputBuf, then Create2AddressInto.
GenerateAddressInto(w, saltBuf) ==
  LET inputBuf == BuildInput(w.inputBuf, saltBuf)
      out == Create2AddressInto(w.hasher, inputBuf, w.hashBuf, w.addrBuf)
  IN  [hasher |-> out.hasher, inputBuf |-> inputBuf, hashBuf |-> out.hashBuf,
       addrBuf |-> out.addrBuf]

\* The worker's earlier attempts: none, or one with each salt of the model.
Histories == {<<>>} \cup {<<s>> : s \in SaltBuffers}

\* The worker after the attempts of a history.
WorkerAfter(h) == IF h = <<>> THEN ZeroWorker ELSE GenerateAddressInto(ZeroWorker, h[1])

\* The derivation of one salt by a worker with a history, twice in a row, by
\* a new worker, and by CalculateCreate2Address.
CallDerive ==
  /\ call = NoCall
  /\ \E h \in Histories, s \in SaltBuffers :
       LET first  == GenerateAddressInto(WorkerAfter(h), s)
           second == GenerateAddressInto(first, s)
       IN  call' = [fn |-> "Create2AddressInto", history |-> h, salt |-> s,
                    ret |-> first.addrBuf,
                    again |-> second.addrBuf,
                    fresh |-> GenerateAddressInto(ZeroWorker, s).addrBuf,
                    display |-> CalculateCreate2Address(InitcodeHash, s)]
  /\ UNCHANGED runVars

\* rand.Read returned an error: fastRandomSaltBytes returns the nil slice.
ReadFails == <<>>

\* What one call of rand.Read on w.saltBuffer can give.
RandOutcomes == SaltBuffers \cup {ReadFails}

\* NewWorker as Miner.worker calls it: the shared counter, and nothing read
\* from crypto/rand (randReads counts the worker's calls of rand.Read).
NewWorkerShared(attempts0) == [attempts |-> attempts0, randReads |-> 0]

\* The batch that counts an attempt only when its candidate does not match.
RECURSIVE ProcessBatchCountsMisses(_, _, _, _)
ProcessBatchCountsMisses(c, reads, i, w) ==
  IF i >= Len(reads) THEN [ret |-> NIL, attempts |-> w.attempts, randReads |-> w.randReads]
  ELSE LET saltBytes == reads[i + 1]
           r == w.randReads + 1
       IN  IF saltBytes = ReadFails
             THEN ProcessBatchCountsMisses(c, reads, i + 1, [w EXCEPT !.randReads = r])
           ELSE IF matchesOptimized(c, AddressOf[saltBytes])
             THEN [ret |-> [Salt |-> HexEncode(saltBytes), Address |-> AddressOf[saltBytes],
                            Attempts |-> w.attempts, IsMatch |-> TRUE],
                   attempts |-> w.attempts, randReads |-> r]
           ELSE ProcessBatchCountsMisses(c, reads, i + 1,
                                         [attempts |-> w.attempts + 1, randReads |-> r])

\* Worker.ProcessBatch(batchSize) from pass i on: reads[i + 1] is what
\* rand.Read gives in pass i, batchSize is Len(reads), w the worker (the
\* counter it shares and its calls of rand.Read so far).
RECURSIVE ProcessBatch(_, _, _, _)
ProcessBatch(c, reads, i, w) ==
  IF i >= Len(reads) THEN [ret |-> NIL, attempts |-> w.attempts, randReads |-> w.randReads]
  ELSE LET saltBytes == reads[i + 1]
           r == w.randReads + 1
       IN  IF saltBytes = ReadFails
             THEN ProcessBatch(c, reads, i + 1, [w EXCEPT !.randReads = r])
           ELSE IF matchesOptimized(c, AddressOf[saltBytes])
             THEN [ret |-> [Salt |-> HexEncode(saltBytes), Address |-> AddressOf[saltBytes],
                            Attempts |-> w.attempts + 1, IsMatch |-> TRUE],
                   attempts |-> w.attempts + 1, randReads |-> r]
           ELSE ProcessBatch(c, reads, i + 1, [attempts |-> w.attempts + 1, randReads |-> r])

\* The values of the shared counter when a batch starts.
CounterStarts == {0, 5}

\* w.ProcessBatch(n) by a new worker, for every sequence of n outcomes of
\* rand.Read.
CallProcessBatch ==
  /\ call = NoCall
  /\ \E c \in Patterns, n \in 0..MaxBatch, a \in CounterStarts :
       \E reads \in [1..n -> RandOutcomes] :
         call' = [fn |-> "ProcessBatch", config |-> c, reads |-> reads,
                  worker |-> NewWorkerShared(a),
                  out |-> ProcessBatch(c, reads, 0, NewWorkerShared(a))]
  /\ UNCHANGED runVars

\* Prefix flags: empty, zeros with and without "0x", "0x" alone, "0X", and
\* flags with a digit that is not zero.
ZeroPrefixSamples ==
  { <<>>, <<"0">>, <<"0", "0">>, <<"0", "0", "0", "0", "0", "0">>, <<"0", "x", "0">>,
    <<"0", "x", "0", "0">>, <<"0", "x">>, <<"0", "X", "0", "0">>, <<"0", "x", "0", "4">>,
    <<"0", "4">>, <<"0", "0", "a">>, <<"1">>, <<"1", "0">>, <<"0", "x", "0", "x", "0">> }

\* Configurations with such a prefix, alone or beside an all-zero suffix or
\* target.
ZeroPrefixConfigs ==
  {[Target |-> <<>>, Prefix |-> p, Suffix |-> <<>>] : p \in ZeroPrefixSamples}
    \cup {[Target |-> <<>>, Prefix |-> p, Suffix |-> <<"0", "0">>] : p \in {<<>>, <<"0">>}}
    \cup {[Target |-> toChecksumAddress([k \in 1..20 |-> 0]), Prefix |-> p, Suffix |-> <<>>] :
            p \in {<<>>, <<"0">>}}

\* m.config.IsZeroPrefix()
CallIsZeroPrefix ==
  /\ call = NoCall
  /\ \E c \in ZeroPrefixConfigs :
       call' = [fn |-> "IsZeroPrefix", config |-> c, ret |-> IsZeroPrefix(c)]
  /\ UNCHANGED runVars

PureInit ==
  /\ Init
  /\ cfg.Workers = 1
  /\ ~cfg.Verbose
  /\ cfg.Suffix # <<>>

PureNext ==
  \/ CallIsBetter
  \/ CallMatches
  \/ CallNewWorker
  \/ CallChecksum
  \/ CallDerive
  \/ CallProcessBatch
  \/ CallIsZeroPrefix
  \/ CallMatchesSeveral

PureSpec == PureInit /\ [][PureNext]_vars

---------------------------------------------------------------------------
\* The run from the command line on, together with the input buffer of a
\* buffered worker.

\* The input buffer of a worker after the attempts of a history.
InputAfter(h) ==
  IF h = <<>> THEN ZeroWorker.inputBuf ELSE BuildInput(ZeroWorker.inputBuf, h[1])

\* One attempt of a buffered worker with a history, at any moment: the input
\* buffer before and after the three copies.
CallBuildInput ==
  /\ call = NoCall
  /\ \E h \in Histories, s \in SaltBuffers :
       call' = [fn |-> "inputBuf", history |-> h, salt |-> s,
                before |-> InputAfter(h), after |-> BuildInput(InputAfter(h), s)]
  /\ UNCHANGED runVars

FrameNext == Setup \/ Next \/ CallBuildInput

FrameSpec == SetupInit /\ [][FrameNext]_vars

(***************************************************************************)
(* Reference notions the properties are stated with                        *)
(***************************************************************************)
\* The 40 nibble values of a displayed address ("0x" and 40 hex characters).
AddressNibbles(address) == [k \in 1..40 |-> HexValue[address[k + 2]]]

\* The nibble values of a pattern flag, an optional leading "0x" dropped.
PatternNibbles(p) ==
  LET h == IF Len(p) >= 2 /\ p[1] = "0" /\ p[2] = "x" THEN SubSeq(p, 3, Len(p)) ELSE p
  IN  [k \in 1..Len(h) |-> HexValue[h[k]]]

\* The address satisfies the one pattern the configuration sets.
Satisfies(c, address) ==
  LET a == AddressNibbles(address)
      t == PatternNibbles(c.Target)
      p == PatternNibbles(c.Prefix)
      x == PatternNibbles(c.Suffix)
  IN  /\ c.Target # <<>> => (Len(t) = 40 /\ \A k \in 1..40 : t[k] = a[k])
      /\ c.Prefix # <<>> => (Len(p) <= 40 /\ \A k \in 1..Len(p) : p[k] = a[k])
      /\ c.Suffix # <<>> =>
           (Len(x) <= 40 /\ \A k \in 1..Len(x) : x[k] = a[40 - Len(x) + k])

\* Left-to-right comparison of two displayed addresses: strictly smaller at the
\* first differing position.
LexLess(x, y) ==
  LET a == AddressNibbles(x)
      b == AddressNibbles(y)
  IN  \E k \in 1..40 : a[k] < b[k] /\ \A j \in 1..(k - 1) : a[j] = b[j]

\* The salt and address of a record.
Core(r) == [Salt |-> r.Salt, Address |-> r.Address]

Returned == minePc = "returned"

\* The records the match step installed, in order.
MatchWrites == SelectSeq(writes, LAMBDA e : e.step = "match")

(***************************************************************************)
(* Properties                                                              *)
(***************************************************************************)
\* C1: in every mode, once a worker has evaluated a candidate that matches the
\* pattern, m.done is closed by the time that worker has stopped.
C1_MatchCancels ==
  \A w \in WorkerIds :
    (pc[w] = "stopped" /\ result[w] # NIL /\ result[w].IsMatch) => done

\* C2: close(m.done) is executed at most once however many workers and Stop
\* calls race for it, and a closed m.done never reopens.
C2_CloseOnce == [](closes <= 1) /\ [][done => done']_vars

\* Stop() was called after a match step had already closed m.done.
C2_Witness ==
  /\ stopCalled
  /\ closes = 1
  /\ MatchWrites # <<>>

\* C3: after Stop() every spawned worker increments the counter at most
\* batchSize more times, every spawned worker eventually stops and Mine()
\* returns.
C3_StopTerminates ==
  /\ [](\A w \in WorkerIds : after[w] <= batchSize)
  /\ stopCalled ~> (Returned /\ \A w \in 1..cfg.Workers : pc[w] = "stopped")

\* Stop() caught a worker between its poll of m.done and its increment, and
\* the run has returned.
C3_Witness ==
  /\ stopCalled
  /\ Returned
  /\ \E w \in WorkerIds : after[w] = 1 /\ pc[w] = "stopped"

\* C4: whenever Mine() has returned, m.done is closed.
C4_ReturnedImpliesCancelled == Returned => done

\* C5: m.bestResult never goes back to nil, and every step that replaces the
\* candidate of a non-nil m.bestResult installs a strictly smaller address, in
\* the tracking step and in the match step alike.
C5_StrictlySmaller ==
  [][/\ bestResult # NIL => bestResult' # NIL
     /\ (bestResult # NIL /\ Core(bestResult') # Core(bestResult))
          => LexLess(bestResult'.Address, bestResult.Address)]_vars

\* The match step has replaced a candidate that an earlier match step installed.
C5_Witness ==
  /\ Len(MatchWrites) >= 2
  /\ bestResult # NIL
  /\ Core(bestResult) = Core(writes[Len(writes)])

\* The workers that have derived a candidate and not yet incremented the counter.
Pending == {w \in WorkerIds : pc[w] = "add"}

\* C6: the attempt counter never decreases, each step raises it by at most
\* one, and it equals the number of candidates derived so far less the workers
\* that stand between deriving and incrementing.
C6_ExactCount ==
  /\ [](attempts = derived - Cardinality(Pending))
  /\ [][attempts' = attempts \/ attempts' = attempts + 1]_vars

\* Two workers have both counted, and nobody stands before the increment.
C6_Witness ==
  /\ attempts = derived
  /\ attempts >= 2
  /\ Pending = {}
  /\ \A w \in WorkerIds : pc[w] \notin {"unborn", "select", "batch"}

\* C7: when Mine() has returned and Stop() was never called, the result is
\* non-nil and its address satisfies the configured pattern (in best-tracking
\* mode too).
C7_ResultSatisfiesPattern ==
  (Returned /\ ~stopCalled) => (mineResult # NIL /\ Satisfies(cfg, mineResult.Address))

\* A best-tracking run of two workers returned by itself after a non-matching
\* candidate had been tracked.
C7_Witness ==
  /\ Returned
  /\ ~stopCalled
  /\ IsZeroPrefix(cfg)
  /\ mineResult # NIL
  /\ \E k \in 1..Len(writes) : ~Satisfies(cfg, writes[k].Address)

\* C8: the address of a non-nil m.bestResult is the CREATE2 derivation of the
\* salt of the same record.
C8_SaltAddressPaired ==
  bestResult # NIL =>
    LET saltBytes == HexDecode(bestResult.Salt)
    IN  /\ saltBytes \in SaltBuffers
        /\ bestResult.Address = AddressOf[saltBytes]

\* The record has been replaced at least once by a candidate of another salt.
C8_Witness ==
  /\ Len(writes) >= 2
  /\ bestResult # NIL
  /\ bestResult.Salt # writes[1].Salt

\* C9: Mine() returns m.bestResult as it stands when the workers have
\* stopped: nil exactly when no candidate was ever recorded.
C9_ReturnsCurrentBest ==
  Returned => (mineResult = bestResult /\ (mineResult = NIL <=> writes = <<>>))

\* The run was cancelled after candidates were derived and none was recorded.
C9_Witness ==
  /\ Returned
  /\ stopCalled
  /\ mineResult = NIL
  /\ attempts >= 1

\* C10 as stated: the candidate the run returns is the first one that the
\* match step accepted.
C10_FirstAcceptedReturned ==
  (Returned /\ mineResult # NIL) =>
    (MatchWrites # <<>> /\ Core(mineResult) = Core(MatchWrites[1]))

\* C10: the candidate the run returns is the last one that passed the
\* comparator-guarded accept check of the tracking or match step, and no
\* recorded candidate has a smaller address; a match accepted after the first
\* one replaces it.
C10_LastAcceptedReturned ==
  (Returned /\ mineResult # NIL) =>
    /\ writes # <<>>
    /\ Core(mineResult) = Core(writes[Len(writes)])
    /\ \A k \in 1..Len(writes) : ~LexLess(writes[k].Address, mineResult.Address)

\* The run returned a match accepted after the first accepted match.
C10_Witness ==
  /\ Returned
  /\ mineResult # NIL
  /\ Len(MatchWrites) >= 2
  /\ Core(mineResult) = Core(MatchWrites[2])
  /\ Core(mineResult) # Core(MatchWrites[1])

\* C11: every step that writes the shared best-result record, the pointer or
\* one of its fields, is taken while the mutex is held.
C11_WriteUnderLock == [][bestResult' # bestResult => mu # 0]_vars

\* The state of the program apart from the history of Stop() calls.
programVars ==
  <<cfg, attempts, bestResult, mu, done, once, closes, wg, minePc, spawned,
    mineResult, logTicker, tickC, logDone, loggerPc, emitted, pc, idx, result>>

\* C12: a Stop() step leaves m.done closed and never changes bestResult or the
\* attempt counter, and a Stop() taken when m.done is already closed (by an
\* earlier Stop() or by a worker) changes nothing of the program's state.
C12_StopIdempotent ==
  [][Stop => /\ done' /\ once'
             /\ bestResult' = bestResult
             /\ attempts' = attempts
             /\ done => UNCHANGED programVars]_vars

\* Stop() has been called while a worker holds the lock in the match step,
\* about to trigger cancellation itself.
C12_Witness ==
  /\ stopCalled
  /\ ~IsZeroPrefix(cfg)
  /\ \E w \in WorkerIds : pc[w] = "match" /\ mu = w /\ bestResult = NIL

C14_SpawnsWorkerCount ==
  /\ cfg.Workers >= 1
  /\ spawned <= cfg.Workers
  /\ {w \in WorkerIds : pc[w] # "unborn"} = 1..spawned
  /\ minePc \in {"wait", "finish", "returned"} => spawned = cfg.Workers
  /\ wg = Cardinality({w \in 1..spawned : pc[w] # "stopped"})

\* Mine() has spawned NumCPU workers and all of them are searching.
C14_Witness ==
  /\ minePc = "wait"
  /\ cfg.Workers = NumCPU
  /\ wg = NumCPU
  /\ \A w \in 1..NumCPU : pc[w] \in {"add", "load"}

\* C15: the comparator is a strict order on addresses: no address is better
\* than itself, of two different addresses exactly one is better than the
\* other, two displays of one address are never better than each other, and
\* with no current best every candidate is accepted.
C15_StrictOrder ==
  call.fn = "isBetterOptimized" =>
    /\ ~call.self
    /\ IF AddressNibbles(call.newAddr) = AddressNibbles(call.oldAddr)
         THEN ~call.ret /\ ~call.swapped
         ELSE call.ret # call.swapped
    /\ bestResult = NIL => call.accepts

\* The comparator has ordered two different addresses that differ only in
\* their last byte, the larger given first.
C15_Witness ==
  /\ call.fn = "isBetterOptimized"
  /\ call.newAddr = toChecksumAddress([k \in 1..20 |-> IF k = 20 THEN 2 ELSE 0])
  /\ call.oldAddr = toChecksumAddress([k \in 1..20 |-> IF k = 20 THEN 1 ELSE 0])
  /\ ~call.ret
  /\ call.swapped

\* C16: for each pattern kind the matcher returns true exactly when the
\* pattern equals the leading bytes (prefix), the trailing bytes (suffix) or
\* all 20 bytes (target) of the address.
C16_MatcherCorrect ==
  call.fn = "matchesOptimized" =>
    call.ret = Satisfies(call.config, call.address)

\* C17: the match result is the same for a pattern, the pattern in lower case
\* and the pattern in upper case, and the same for the EIP-55 display of the
\* address and its lowercase display.
C17_CaseInsensitive ==
  call.fn = "matchesOptimized" =>
    /\ call.ret = call.retLower
    /\ call.ret = call.retUpper
    /\ call.ret = call.retPlain

\* C20: when rand.Read fails in NewWorker no worker is returned.
C20_NoWorkerWithoutSeed ==
  (call.fn = "NewWorker" /\ ~call.readOk) => call.ret = NIL

\* The number of pattern flags a configuration sets.
PatternsSet(c) ==
  Cardinality({f \in {"Target", "Prefix", "Suffix"} : c[f] # <<>>})

\* C18: a configuration with which the core has started (validation passed)
\* sets exactly one of target, prefix and suffix.
C18_ExactlyOnePattern ==
  minePc \notin {"setup", "exit", "panic"} => PatternsSet(cfg) = 1

\* The hex digits of a pattern flag, an optional leading "0x" dropped.
Digits(p) ==
  IF Len(p) >= 2 /\ p[1] = "0" /\ p[2] = "x" THEN SubSeq(p, 3, Len(p)) ELSE p

\* A pattern that is not hex, a target that is not 20 bytes, a prefix or suffix
\* of more than 20 bytes, or init code that cannot be read or decoded.
ConfigError(c) ==
  \/ \E f \in {"Target", "Prefix", "Suffix"} :
       \E k \in 1..Len(Digits(c[f])) : Digits(c[f])[k] \notin DOMAIN HexValue
  \/ c.Target # <<>> /\ Len(Digits(c.Target)) # 40
  \/ Len(Digits(c.Prefix)) > 40
  \/ Len(Digits(c.Suffix)) > 40
  \/ GetBytecode(c).err

\* C19: in a run whose configuration has such an error no worker is ever
\* started and no attempt is ever counted.
C19_ConfigErrorFatal ==
  ConfigError(cfg) => (attempts = 0 /\ \A w \in WorkerIds : pc[w] = "unborn")

\* C21: checksum-encoding a 20-byte address, lowercasing the result and
\* decoding it gives back the 20 bytes; the encoding is "0x" and 40 characters
\* that differ from the lowercase hex of the bytes in letter case only.
C21_ChecksumRoundTrip ==
  call.fn = "toChecksumAddress" =>
    /\ ~call.decoded.err
    /\ call.decoded.bytes = call.addr20
    /\ Len(call.ret) = 42
    /\ ToLower(call.ret) = <<"0", "x">> \o HexEncode(call.addr20)

\* The address of TestWorkerMatches has gone through the encoding, which put
\* some of its letters in upper case, and came back.
C21_Witness ==
  /\ call.fn = "toChecksumAddress"
  /\ call.addr20 = TestAddr20
  /\ call.ret # ToLower(call.ret)
  /\ call.decoded.bytes = TestAddr20

\* C22: the address a worker derives for a salt is the same whatever its
\* hasher and buffers hold from an earlier attempt, the same on a second call,
\* and the 20 bytes CalculateCreate2Address displays for that salt.
C22_DeriveDeterministic ==
  call.fn = "Create2AddressInto" =>
    /\ call.ret = call.fresh
    /\ call.again = call.ret
    /\ MustAddressBytes(call.display) = [err |-> FALSE, bytes |-> call.ret]

\* A worker whose buffers held the address of another salt has derived.
C22_Witness ==
  /\ call.fn = "Create2AddressInto"
  /\ call.history # <<>>
  /\ call.history[1] # call.salt
  /\ call.ret # GenerateAddressInto(ZeroWorker, call.history[1]).addrBuf

\* C23: from the moment a worker's candidate has been found to match, the
\* worker keeps that candidate, goes only through the tracking and match steps,
\* and leaves the match step stopped, whether or not the candidate was
\* accepted.
C23_MatchStops ==
  [][\A w \in WorkerIds :
       (result[w] # NIL /\ result[w].IsMatch) =>
         /\ result'[w] = result[w]
         /\ pc'[w] \in {"trackLock", "track", "matchLock", "match", "stopped"}
         /\ (pc[w] = "match" /\ pc'[w] # "match") => pc'[w] = "stopped"]_vars

\* Outside best-tracking mode two workers have stopped after a match and only
\* one of the two candidates was accepted.
C23_Witness ==
  /\ ~IsZeroPrefix(cfg)
  /\ Len(MatchWrites) = 1
  /\ Cardinality({w \in WorkerIds :
                    pc[w] = "stopped" /\ result[w] # NIL /\ result[w].IsMatch}) = 2

\* The workers between deriving a candidate and the end of its tracking step.
Tracking == {w \in WorkerIds : pc[w] \in {"add", "load", "trackLock", "track"}}

\* The smallest of a set of displayed addresses.
Smallest(S) == CHOOSE a \in S : \A b \in S : ~LexLess(b, a)

\* C24: in best-tracking mode, whenever no worker stands between deriving a
\* candidate and the end of its tracking step, bestResult is nil if nothing
\* was derived and otherwise holds the smallest address derived so far; and a
\* worker's step that replaces the record installs that worker's candidate
\* with its salt and the attempt count it read.
C24_TracksSmallest ==
  /\ []((IsZeroPrefix(cfg) /\ Tracking = {}) =>
          IF evaluated = {} THEN bestResult = NIL
          ELSE bestResult # NIL /\ bestResult.Address = Smallest(evaluated))
  /\ [][(bestResult' # bestResult /\ minePc # "finish") =>
          \E w \in WorkerIds :
            /\ pc[w] \in {"track", "match"}
            /\ mu = w
            /\ bestResult' = NewResult(result[w])
            /\ result[w].Attempts >= 1]_vars

\* In best-tracking mode three candidates have been tracked, one was kept on
\* arrival, one replaced it and one was turned down.
C24_Witness ==
  /\ IsZeroPrefix(cfg)
  /\ Tracking = {}
  /\ derived = 3
  /\ Len(writes) = 2
  /\ bestResult # NIL
  /\ bestResult.Address = Smallest(evaluated)
  /\ Cardinality(evaluated) >= 2

\* C25: a worker that has stopped stays stopped: it takes no step, its
\* position, loop variable and candidate never change again; and once all the
\* workers of the run have stopped, no candidate is derived, the counter is
\* not raised and no record is installed.
C25_StoppedStays ==
  [][/\ \A w \in WorkerIds :
          pc[w] = "stopped" =>
            /\ pc'[w] = "stopped"
            /\ result'[w] = result[w]
            /\ idx'[w] = idx[w]
            /\ after'[w] = after[w]
            /\ ~WorkerStep(w)
     /\ (\A w \in 1..cfg.Workers : pc[w] = "stopped") =>
          UNCHANGED <<attempts, derived, evaluated, writes>>]_vars

\* One worker has stopped after its match while the other is still in the
\* middle of an attempt.
C25_Witness ==
  /\ \E w \in WorkerIds : pc[w] = "stopped" /\ result[w] # NIL /\ result[w].IsMatch
  /\ \E w \in WorkerIds : pc[w] \in {"add", "load"}

\* C26: a pass of the batch loop ends (its loop variable advances) only after
\* the worker has derived and counted a candidate in that pass, in the step
\* that evaluates it or after it.
C26_IterationEvaluates ==
  [][\A w \in WorkerIds :
       idx'[w] = idx[w] + 1 =>
         (result[w] # NIL /\ pc[w] \in {"load", "track"})]_vars

\* The passes of a batch whose candidate matches the pattern.
MatchingPasses(c, reads) ==
  {k \in 1..Len(reads) : matchesOptimized(c, AddressOf[reads[k]])}

\* C27: a batch of n passes that each generated a candidate raises the shared
\* counter by exactly n and returns nil when no candidate matches; when the
\* k-th candidate is the first match it raises the counter by exactly k and
\* returns that candidate.
C27_BatchCounts ==
  (call.fn = "ProcessBatch" /\ \A k \in 1..Len(call.reads) : call.reads[k] # ReadFails) =>
    LET n == Len(call.reads)
        M == MatchingPasses(call.config, call.reads)
    IN  IF M = {}
          THEN call.out.ret = NIL /\ call.out.attempts = call.worker.attempts + n
          ELSE LET k == CHOOSE j \in M : \A i \in M : j <= i
               IN  /\ call.out.attempts = call.worker.attempts + k
                   /\ call.out.ret # NIL
                   /\ call.out.ret.IsMatch
                   /\ call.out.ret.Salt = HexEncode(call.reads[k])
                   /\ call.out.ret.Address = AddressOf[call.reads[k]]

\* A batch of three passes found its first match in the second pass, the
\* counter standing at 5 before.
C27_Witness ==
  /\ call.fn = "ProcessBatch"
  /\ Len(call.reads) = 3
  /\ \A k \in 1..3 : call.reads[k] # ReadFails
  /\ MatchingPasses(call.config, call.reads) = {2, 3}
  /\ call.worker.attempts = 5
  /\ call.out.attempts = 7
  /\ call.out.ret # NIL

\* The 20 bytes of a displayed address.
AddressBytes(address) == HexDecode(Slice(address, 2, 42))

\* Left-to-right comparison of the bytes of two displayed addresses.
ByteLexLess(x, y) ==
  LET a == AddressBytes(x)
      b == AddressBytes(y)
  IN  \E k \in 1..20 : a[k] < b[k] /\ \A j \in 1..(k - 1) : a[j] = b[j]

\* C28: the comparator's answer, computed on the parsed integers, is the
\* left-to-right byte comparison of the two addresses: better iff strictly
\* smaller at the first differing byte.
C28_LexicographicBytes ==
  call.fn = "isBetterOptimized" =>
    /\ call.ret = ByteLexLess(call.newAddr, call.oldAddr)
    /\ call.swapped = ByteLexLess(call.oldAddr, call.newAddr)

\* The comparator preferred an address with a smaller first byte and a larger
\* last byte (00..02 against 01 00..).
C28_Witness ==
  /\ call.fn = "isBetterOptimized"
  /\ AddressBytes(call.newAddr) = [k \in 1..20 |-> IF k = 20 THEN 2 ELSE 0]
  /\ AddressBytes(call.oldAddr) = [k \in 1..20 |-> IF k = 1 THEN 1 ELSE 0]
  /\ call.ret
  /\ ~call.swapped

\* A prefix flag is set and, after an optional leading "0x", is one or more
\* '0' characters and nothing else.
AllZeroPrefix(c) ==
  /\ c.Prefix # <<>>
  /\ Digits(c.Prefix) # <<>>
  /\ \A k \in 1..Len(Digits(c.Prefix)) : Digits(c.Prefix)[k] = "0"

\* The prefix flag has a hex digit other than zero.
HasNonZeroDigit(p) ==
  \E k \in 1..Len(p) : p[k] \in DOMAIN HexValue /\ HexValue[p[k]] # 0

\* C29: IsZeroPrefix is true exactly for a configuration whose prefix is set
\* and all zeros after an optional "0x" (whatever the target and the suffix),
\* and false for every prefix with a non-zero digit.
C29_ZeroPrefix ==
  call.fn = "IsZeroPrefix" =>
    /\ call.ret = AllZeroPrefix(call.config)
    /\ HasNonZeroDigit(call.config.Prefix) => ~call.ret

\* IsZeroPrefix answered true on the flag 0x00.
C29_Witness ==
  /\ call.fn = "IsZeroPrefix"
  /\ call.config.Prefix = <<"0", "x", "0", "0">>
  /\ call.ret

\* C30: a worker reads the secure random source once, when it is created,
\* and not in its attempts.
C30_SeededOnce ==
  call.fn = "ProcessBatch" =>
    /\ call.worker.randReads = 1
    /\ call.out.randReads = call.worker.randReads

---------------------------------------------------------------------------
---------------------------------------------------------------------------
\* C32: the progress reporter emits status only while the coordinator is
\* running.  The reporter goroutine exists only when reporting is enabled,
\* and once Mine() has returned no step emits a further progress line.
C32_ReporterOnlyWhileRunning ==
  [][ /\ loggerPc' # "none" => cfg.Verbose
      /\ Returned => emitted' = emitted
    ]_vars

---------------------------------------------------------------------------
\* C33: Mine() returns only after every spawned worker has stopped, and after
\* Mine() has returned the attempt counter, m.bestResult (its salt, address
\* and attempts included) and the result handed out never change again.
C33_ReturnsAfterWorkers ==
  /\ [](Returned =>
          /\ spawned = cfg.Workers /\ wg = 0
          /\ \A w \in 1..spawned : pc[w] = "stopped")
  /\ [][Returned => UNCHANGED <<attempts, bestResult, mineResult>>]_vars

\* Two workers have made attempts and stopped, Mine() has returned a result,
\* and the reporter has since seen logDone and exited.
C33_Witness ==
  /\ Returned /\ spawned = 2 /\ attempts >= 2 /\ mineResult # NIL
  /\ loggerPc = "exited"

---------------------------------------------------------------------------
\* The number of times worker w replaced m.bestResult with m.done closed.
AfterWrites(w) == Len(SelectSeq(writes, LAMBDA e : e.worker = w /\ e.cancelled))

\* The increments of the counter made with m.done closed, by workers 1..n.
RECURSIVE SumAfter(_)
SumAfter(n) == IF n = 0 THEN 0 ELSE after[n] + SumAfter(n - 1)

\* C34: once m.done is closed, each worker increments the counter at most once
\* more (the attempt it was in), so the counter grows by at most the number of
\* workers, and each worker replaces m.bestResult at most once.
C34_OneFurtherAttempt ==
  /\ \A w \in WorkerIds : after[w] <= 1 /\ AfterWrites(w) <= 1
  /\ SumAfter(MaxWorkers) <= cfg.Workers

\* Cancellation caught both workers in the middle of an attempt: both have
\* incremented the counter since, and one has replaced m.bestResult since.
C34_Witness ==
  /\ \A w \in WorkerIds : after[w] = 1
  /\ \E w \in WorkerIds : AfterWrites(w) = 1

---------------------------------------------------------------------------
\* C35: outside best-tracking mode, whenever m.bestResult is non-nil, m.done
\* is closed and the address of m.bestResult satisfies the configured pattern.
C35_RecordedImpliesCancelled ==
  (~IsZeroPrefix(cfg) /\ bestResult # NIL) =>
    (done /\ Satisfies(cfg, bestResult.Address))

\* Outside best-tracking mode a match has been recorded, without any Stop(),
\* while another worker is still in the middle of an attempt.
C35_Witness ==
  /\ ~IsZeroPrefix(cfg) /\ bestResult # NIL /\ ~stopCalled
  /\ \E w \in WorkerIds : pc[w] \in {"add", "load"}

---------------------------------------------------------------------------
\* The candidates derived so far that satisfy the configured pattern.
MatchingEvaluated == {a \in evaluated : Satisfies(cfg, a)}

\* C36: outside best-tracking mode, the result Mine() returns is the smallest
\* address among all the matching candidates any worker evaluated during the
\* run, those found after cancellation included; it is nil exactly when no
\* candidate matched.
C36_SmallestMatchReturned ==
  (Returned /\ ~IsZeroPrefix(cfg)) =>
    IF MatchingEvaluated = {}
      THEN mineResult = NIL
      ELSE mineResult # NIL /\ mineResult.Address = Smallest(MatchingEvaluated)

\* Without any Stop(), two workers found different matches; the second was
\* recorded after the first had closed m.done, and it is the one returned.
C36_Witness ==
  /\ Returned /\ ~IsZeroPrefix(cfg) /\ ~stopCalled
  /\ Cardinality(MatchingEvaluated) >= 2
  /\ Len(MatchWrites) = 2 /\ MatchWrites[2].cancelled
  /\ mineResult.Address = MatchWrites[2].Address

---------------------------------------------------------------------------
\* C37: a non-nil m.bestResult carries an attempt count between 1 and the
\* current counter; every candidate that has been evaluated carries a count
\* between 1 and the counter, read no earlier than the worker's own increment
\* (the load step stores a count at least the value that increment produced);
\* and every record installed carries the count of its candidate.
C37_AttemptsBounded ==
  /\ [](bestResult # NIL => (1 <= bestResult.Attempts /\ bestResult.Attempts <= attempts))
  /\ [][\A w \in WorkerIds :
         /\ (pc[w] = "load" /\ pc'[w] \in {"trackLock", "matchLock"}) =>
              /\ 1 <= result[w].Own /\ result[w].Own <= result'[w].Attempts
              /\ result'[w].Attempts <= attempts
         /\ (pc[w] \in {"track", "match"} /\ bestResult' # bestResult) =>
              bestResult'.Attempts = result[w].Attempts]_vars

\* Two workers' candidates carry the same count, read after the later of the
\* two increments: for one of them it is more than its own increment produced.
C37_Witness ==
  /\ \A w \in WorkerIds : pc[w] \in {"trackLock", "matchLock", "track", "match"}
  /\ result[1].Attempts = result[2].Attempts
  /\ bestResult = NIL

---------------------------------------------------------------------------
\* m.done is closed and no worker has derived a candidate or is in the middle
\* of an attempt.
StoppedEarly ==
  /\ done /\ derived = 0 /\ attempts = 0 /\ bestResult = NIL
  /\ \A w \in WorkerIds : result[w] = NIL /\ pc[w] \in {"unborn", "select", "batch", "stopped"}

\* C38: if Stop() is called before Mine() has started a worker, every worker
\* observes cancellation before its first attempt: from that state on no
\* candidate is ever derived, the counter stays 0, and Mine() returns nil.
C38_StopBeforeMine ==
  /\ []((stopCalled /\ spawned = 0) => StoppedEarly)
  /\ [][StoppedEarly => StoppedEarly']_vars
  /\ []((StoppedEarly /\ Returned) => (mineResult = NIL /\ attempts = 0))

\* Stop() came before the first worker; both workers were started, saw m.done
\* at their first poll and stopped, and Mine() has returned nil.
C38_Witness ==
  /\ StoppedEarly /\ stopCalled /\ Returned /\ spawned = 2
  /\ \A w \in WorkerIds : pc[w] = "stopped" /\ idx[w] = 0
  /\ mineResult = NIL

---------------------------------------------------------------------------
\* C39: with several pattern flags set, a target takes precedence and the
\* prefix and suffix are ignored; with a prefix and a suffix and no target,
\* the matcher accepts a candidate only if it satisfies the prefix and the
\* suffix both.
C39_SeveralPatterns ==
  call.fn = "matchesSeveral" =>
    LET c == call.config
    IN  call.ret =
          IF c.Target # <<>>
            THEN Satisfies([c EXCEPT !.Prefix = <<>>, !.Suffix = <<>>], call.address)
            ELSE Satisfies(c, call.address)
====
